---- MODULE Spec2Model ----
(***************************************************************************)
(* A model of the gortree R-tree (src/rtree.go, second file of the         *)
(* listing, lines 348-840; Rect in src/unnamed/part_004 lines 1-50; node   *)
(* in src/node.go; Query/Entries in src/unnamed/part_001 lines 1-55).      *)
(*                                                                         *)
(* Nodes live in a heap indexed by node identifiers; a Go pointer is a     *)
(* node identifier and the nil pointer is NIL.  Every public call is one   *)
(* action that runs the whole call on the heap.                            *)
(***************************************************************************)
EXTENDS Integers, Sequences, FiniteSets, TLC

\* rtree.go:368-371
MinEntries == 2
MaxEntries == 4

\* Bounds of the model: how many items may be stored at once, and the size of
\* the pool the node identifiers are drawn from.
MaxStored == 5
MaxNodes == 40

\* math.MaxFloat64 (rtree.go:425): larger than any area the model can produce.
MaxFloat64 == 1000000000

NIL == 0
NodeIds == 1..MaxNodes

-----------------------------------------------------------------------------
\* Rect (part_004:5-50)

NewRect(minX, minY, maxX, maxY) ==
    [MinX |-> minX, MinY |-> minY, MaxX |-> maxX, MaxY |-> maxY]

\* The Go zero value Rect{}.
ZeroRect == NewRect(0, 0, 0, 0)

MathMin(a, b) == IF a <= b THEN a ELSE b
MathMax(a, b) == IF a >= b THEN a ELSE b

\* An Expand that lowers the minima and leaves the maxima as they were.
ExpandLowerOnly(r, otherRect) ==
    [r EXCEPT !.MinX = MathMin(@, otherRect.MinX),
              !.MinY = MathMin(@, otherRect.MinY)]

Expand(r, otherRect) ==
    [MinX |-> MathMin(r.MinX, otherRect.MinX),
     MinY |-> MathMin(r.MinY, otherRect.MinY),
     MaxX |-> MathMax(r.MaxX, otherRect.MaxX),
     MaxY |-> MathMax(r.MaxY, otherRect.MaxY)]

\* A Contains that wants the other rectangle clear of every edge.
ContainsProper(r, other) ==
    /\ r.MinX < other.MinX /\ r.MaxX > other.MaxX
    /\ r.MinY < other.MinY /\ r.MaxY > other.MaxY

Contains(r, other) ==
    /\ r.MinX <= other.MinX /\ r.MaxX >= other.MaxX
    /\ r.MinY <= other.MinY /\ r.MaxY >= other.MaxY

\* An Intersects that wants the interiors to meet.
IntersectsOpen(r, other) ==
    /\ r.MinX < other.MaxX /\ r.MaxX > other.MinX
    /\ r.MinY < other.MaxY /\ r.MaxY > other.MinY

Intersects(r, other) ==
    /\ r.MinX <= other.MaxX /\ r.MaxX >= other.MinX
    /\ r.MinY <= other.MaxY /\ r.MaxY >= other.MinY

Area(r) == (r.MaxX - r.MinX) * (r.MaxY - r.MinY)

Enlargement(r, otherRect) == Area(Expand(r, otherRect)) - Area(r)

-----------------------------------------------------------------------------
\* The items the caller may hand to the tree (the Spatial interface: an ID and
\* a bounding box).  Five points lie on the line y = 1 and one item is a proper
\* rectangle; their IDs are pairwise distinct.

Item(id, box) == [id |-> id, box |-> box]

Universe ==
    { Item("a", NewRect(1, 1, 1, 1)),
      Item("b", NewRect(2, 1, 2, 1)),
      Item("c", NewRect(3, 1, 3, 1)),
      Item("d", NewRect(4, 1, 4, 1)),
      Item("e", NewRect(5, 1, 5, 1)),
      Item("f", NewRect(2, 2, 4, 3)) }

\* A second item with the ID of "a" and another box, for workloads in which
\* stored items share an ID.
Twin == Item("a", NewRect(1, 4, 1, 4))

UniverseDup ==
    { Item("a", NewRect(1, 1, 1, 1)),
      Twin,
      Item("b", NewRect(2, 1, 2, 1)),
      Item("c", NewRect(3, 1, 3, 1)),
      Item("d", NewRect(4, 1, 4, 1)) }

\* The nil Spatial interface value.
NoData == Item("nil", ZeroRect)

\* node (node.go:3-9); NewNode is the Go zero value &node{}.
NewNode ==
    [BoundingBox |-> ZeroRect, IsLeaf |-> FALSE, Children |-> <<>>,
     Parent |-> NIL, Data |-> NoData]

\* newLeafNode (node.go:12-20)
newLeafNode(data) ==
    [NewNode EXCEPT !.Data = data, !.BoundingBox = data.box]

-----------------------------------------------------------------------------
VARIABLES
    heap,       \* node identifier -> node record
    root,       \* RTree.root
    panicked,   \* the process aborted on a nil dereference
    stored,     \* history: the items inserted and not yet deleted (by ID)
    dupSeen,    \* history: two stored items once shared an ID
    lastOp,     \* the last call: "New", "Insert" or "Delete"
    lastErr,    \* whether it returned an error
    minEntries, \* RTree.minEntries
    maxEntries, \* RTree.maxEntries
    growth,     \* history of a scripted workload: the next item of the script
                \* and the number of Delete calls made
    calc        \* a Rect method call: the receiver r, the argument s, the
                \* method called ("none" before the call) and what it returned

vars == <<heap, root, panicked, stored, dupSeen, lastOp, lastErr,
          minEntries, maxEntries, growth, calc>>

\* The nodes Go keeps alive: everything reachable from the root pointer.
RECURSIVE Closure(_, _)
Closure(h, S) ==
    LET T == S \cup UNION { { h[n].Children[i] : i \in 1..Len(h[n].Children) }
                               \cup ({h[n].Parent} \ {NIL}) : n \in S }
    IN IF T = S THEN S ELSE Closure(h, T)

Live(h, r) == Closure(h, {r})

\* new(node): the smallest identifier not in use.
Alloc(m) == CHOOSE n \in NodeIds : n \notin m.used /\ \A k \in NodeIds : k \notin m.used => n <= k

\* A call starts on the live heap.
Begin == [heap |-> heap, root |-> root, used |-> Live(heap, root), panic |-> FALSE]

\* The live nodes in depth-first order from the root, then any node kept alive
\* only by a Parent pointer.
RECURSIVE Preorder(_, _, _)
Preorder(h, stack, seen) ==
    IF Len(stack) = 0 THEN seen
    ELSE LET n == stack[1]
             rest == SubSeq(stack, 2, Len(stack))
         IN IF \E i \in 1..Len(seen) : seen[i] = n
            THEN Preorder(h, rest, seen)
            ELSE Preorder(h, h[n].Children \o rest, Append(seen, n))

RECURSIVE Ascending(_)
Ascending(S) ==
    IF S = {} THEN <<>>
    ELSE LET x == CHOOSE y \in S : \A z \in S : y <= z
         IN <<x>> \o Ascending(S \ {x})

\* When a call returns, the nodes it dropped are reclaimed.  A pointer can only
\* be followed or compared for equality, so the live nodes are renamed to
\* 1..n in traversal order: the same tree is the same state.
Reclaim(m) ==
    LET order == Preorder(m.heap, <<m.root>>, <<>>)
        inOrder == { order[i] : i \in 1..Len(order) }
        all == order \o Ascending(Live(m.heap, m.root) \ inOrder)
        new(p) == IF p = NIL THEN NIL ELSE CHOOSE i \in 1..Len(all) : all[i] = p
    IN [heap |-> [n \in NodeIds |->
                    IF n > Len(all) THEN NewNode
                    ELSE LET old == m.heap[all[n]]
                         IN [old EXCEPT !.Parent = new(@),
                                        !.Children = [i \in 1..Len(@) |-> new(@[i])]]],
        root |-> new(m.root)]

-----------------------------------------------------------------------------
\* Insert engine (rtree.go:414-684)

\* The loop of chooseLeaf over node.Children (rtree.go:424-443).
RECURSIVE chooseLeafScan(_, _, _, _, _, _)
chooseLeafScan(h, children, boundingBox, i, bestNode, minEnlargement) ==
    IF i > Len(children) THEN bestNode
    ELSE LET child == children[i]
             enlargement == Enlargement(h[child].BoundingBox, boundingBox)
         IN IF enlargement < minEnlargement
            THEN chooseLeafScan(h, children, boundingBox, i + 1, child, enlargement)
            ELSE IF /\ enlargement = minEnlargement
                    /\ bestNode # NIL
                    /\ Area(h[child].BoundingBox) < Area(h[bestNode].BoundingBox)
                 THEN chooseLeafScan(h, children, boundingBox, i + 1, child, minEnlargement)
                 ELSE chooseLeafScan(h, children, boundingBox, i + 1, bestNode, minEnlargement)

RECURSIVE chooseLeaf(_, _, _)
chooseLeaf(h, node, boundingBox) ==
    IF h[node].IsLeaf THEN node
    ELSE LET bestNode == chooseLeafScan(h, h[node].Children, boundingBox, 1, NIL, MaxFloat64)
         IN IF bestNode = NIL THEN node
            ELSE chooseLeaf(h, bestNode, boundingBox)

\* computeNodesMBR (rtree.go:561-567): starts from the zero Rect.
RECURSIVE computeNodesMBRLoop(_, _, _, _)
computeNodesMBRLoop(h, nodes, i, mbr) ==
    IF i > Len(nodes) THEN mbr
    ELSE computeNodesMBRLoop(h, nodes, i + 1, Expand(mbr, h[nodes[i]].BoundingBox))

\* A computeNodesMBR that forgets the nodes.
computeNodesMBRZero(h, nodes) == ZeroRect

computeNodesMBR(h, nodes) == computeNodesMBRLoop(h, nodes, 1, ZeroRect)

updateNodeMBR(h, node) ==
    [h EXCEPT ![node].BoundingBox = computeNodesMBR(h, h[node].Children)]

\* An updateMBRsUpward that leaves every bounding box as it was.
updateMBRsUpwardSkipped(h, node) == h

RECURSIVE updateMBRsUpward(_, _)
updateMBRsUpward(h, node) ==
    IF node = NIL THEN h
    ELSE updateMBRsUpward(updateNodeMBR(h, node), h[node].Parent)

\* pickSeeds (rtree.go:539-558): seeds start as two nil pointers and
\* maxEnlargement as 0; only a strictly larger enlargement replaces them.
RECURSIVE pickSeedsLoop(_, _, _, _, _, _)
pickSeedsLoop(h, children, i, j, seeds, maxEnlargement) ==
    IF i > Len(children) THEN seeds
    ELSE IF j > Len(children)
         THEN pickSeedsLoop(h, children, i + 1, 1, seeds, maxEnlargement)
         ELSE LET enlargement == Enlargement(h[children[i]].BoundingBox,
                                             h[children[j]].BoundingBox)
              IN IF enlargement > maxEnlargement
                 THEN pickSeedsLoop(h, children, i, j + 1,
                                    <<children[i], children[j]>>, enlargement)
                 ELSE pickSeedsLoop(h, children, i, j + 1, seeds, maxEnlargement)

pickSeeds(h, nodeA) == pickSeedsLoop(h, h[nodeA].Children, 1, 1, <<NIL, NIL>>, 0)

nodeOverflowing(h, node) == Len(h[node].Children) > maxEntries

nodeUnderflowing(h, node) == Len(h[node].Children) < minEntries

Abs(x) == IF x < 0 THEN -x ELSE x

\* A pickNext that always takes the first entry left.
pickNextFirst(h, entries, groupA, groupB) == 1

\* pickNext (rtree.go:661-677): index into entries (1-based here).
RECURSIVE pickNextLoop(_, _, _, _, _, _, _)
pickNextLoop(h, entries, groupA, groupB, i, next, maxDiff) ==
    IF i > Len(entries) THEN next
    ELSE LET d1 == Enlargement(groupA.BoundingBox, h[entries[i]].BoundingBox)
             d2 == Enlargement(groupB.BoundingBox, h[entries[i]].BoundingBox)
             diff == Abs(d1 - d2)
         IN IF diff > maxDiff
            THEN pickNextLoop(h, entries, groupA, groupB, i + 1, i, diff)
            ELSE pickNextLoop(h, entries, groupA, groupB, i + 1, next, maxDiff)

pickNext(h, entries, groupA, groupB) ==
    pickNextLoop(h, entries, groupA, groupB, 1, 1, -1)

\* A chooseGroup that goes by enlargement and area alone.
chooseGroupByEnlargementOnly(h, entry, groupA, groupB) ==
    LET enlargeA == Enlargement(groupA.BoundingBox, h[entry].BoundingBox)
        enlargeB == Enlargement(groupB.BoundingBox, h[entry].BoundingBox)
    IN IF enlargeA < enlargeB THEN "A"
       ELSE IF enlargeB < enlargeA THEN "B"
       ELSE IF Area(groupA.BoundingBox) < Area(groupB.BoundingBox) THEN "A"
       ELSE "B"

\* chooseGroup (rtree.go:630-658): "A" for groupA, "B" for groupB.
chooseGroup(h, entry, groupA, groupB) ==
    LET enlargeA == Enlargement(groupA.BoundingBox, h[entry].BoundingBox)
        enlargeB == Enlargement(groupB.BoundingBox, h[entry].BoundingBox)
    IN IF Len(groupA.Children) < minEntries THEN "A"
       ELSE IF Len(groupB.Children) < minEntries THEN "B"
       ELSE IF enlargeA < enlargeB THEN "A"
       ELSE IF enlargeB < enlargeA THEN "B"
       ELSE IF Area(groupA.BoundingBox) < Area(groupB.BoundingBox) THEN "A"
       ELSE "B"

\* A distribution step that expands the group's box and drops the entry.
addToGroupBoxOnly(h, group, entry) ==
    [group EXCEPT !.BoundingBox = Expand(@, h[entry].BoundingBox)]

\* targetNode.Children = append(...); targetNode.BoundingBox.Expand(...)
\* (rtree.go:614-615)
addToGroup(h, group, entry) ==
    [group EXCEPT !.Children = Append(@, entry),
                  !.BoundingBox = Expand(@, h[entry].BoundingBox)]

RemoveAt(s, i) == SubSeq(s, 1, i - 1) \o SubSeq(s, i + 1, Len(s))

\* The distribution loop of splitNode (rtree.go:606-616).
RECURSIVE distribute(_, _, _, _)
distribute(h, remaining, groupA, groupB) ==
    IF Len(remaining) = 0 THEN <<groupA, groupB>>
    ELSE LET next == pickNext(h, remaining, groupA, groupB)
             entry == remaining[next]
             rest == RemoveAt(remaining, next)
         IN IF chooseGroup(h, entry, groupA, groupB) = "A"
            THEN distribute(h, rest, addToGroup(h, groupA, entry), groupB)
            ELSE distribute(h, rest, groupA, addToGroup(h, groupB, entry))

\* The turns of the distribution loop (rtree.go:606-616), in order: the
\* entries left when pickNext is called, the entry picked, and the two groups
\* as pickNext and chooseGroup find them.
RECURSIVE distributeCalls(_, _, _, _)
distributeCalls(h, remaining, groupA, groupB) ==
    IF Len(remaining) = 0 THEN <<>>
    ELSE LET next == pickNext(h, remaining, groupA, groupB)
             entry == remaining[next]
             rest == RemoveAt(remaining, next)
         IN <<[remaining |-> remaining, entry |-> entry,
               groupA |-> groupA, groupB |-> groupB]>> \o
            (IF chooseGroup(h, entry, groupA, groupB) = "A"
             THEN distributeCalls(h, rest, addToGroup(h, groupA, entry), groupB)
             ELSE distributeCalls(h, rest, groupA, addToGroup(h, groupB, entry)))

\* adjustEntriesParent (rtree.go:680-684)
\* An adjustEntriesParent that makes every child its own parent.
adjustEntriesParentSelf(h, node) ==
    [n \in NodeIds |->
        IF \E i \in 1..Len(h[node].Children) : h[node].Children[i] = n
        THEN [h[n] EXCEPT !.Parent = n]
        ELSE h[n]]

\* An adjustEntriesParent that leaves the Parent of the children as it was.
adjustEntriesParentSkipped(h, node) == h

adjustEntriesParent(h, node) ==
    [n \in NodeIds |->
        IF \E i \in 1..Len(h[node].Children) : h[node].Children[i] = n
        THEN [h[n] EXCEPT !.Parent = node]
        ELSE h[n]]

\* splitNode (rtree.go:578-627).  seeds[0].BoundingBox dereferences a nil
\* pointer when pickSeeds found no pair: the call panics.  groupA is a
\* temporary whose value is copied over *node; groupB is the new node.
splitNode(m, node) ==
    LET h == m.heap
        seeds == pickSeeds(h, node)
    IN IF seeds[1] = NIL
       THEN [m |-> [m EXCEPT !.panic = TRUE], sib |-> NIL]
       ELSE LET groupA == [NewNode EXCEPT !.BoundingBox = h[seeds[1]].BoundingBox,
                                          !.Children = <<seeds[1]>>,
                                          !.IsLeaf = h[node].IsLeaf,
                                          !.Parent = h[node].Parent]
                groupB == [NewNode EXCEPT !.BoundingBox = h[seeds[2]].BoundingBox,
                                          !.Children = <<seeds[2]>>,
                                          !.IsLeaf = h[node].IsLeaf,
                                          !.Parent = h[node].Parent]
                remaining == SelectSeq(h[node].Children,
                                       LAMBDA entry : ~(entry = seeds[1] \/ entry = seeds[2]))
                groups == distribute(h, remaining, groupA, groupB)
                b == Alloc(m)
                h1 == [h EXCEPT ![node] = groups[1], ![b] = groups[2]]
                h2 == adjustEntriesParent(adjustEntriesParent(h1, node), b)
            IN [m |-> [m EXCEPT !.heap = h2, !.used = @ \cup {b}], sib |-> b]

\* The chooseGroup calls splitNode makes on a node (rtree.go:578-616): none
\* when it panics for want of seeds.
splitNodeCalls(h, node, seeds) ==
    IF seeds[1] = NIL THEN <<>>
    ELSE distributeCalls(h,
             SelectSeq(h[node].Children,
                       LAMBDA entry : ~(entry = seeds[1] \/ entry = seeds[2])),
             [NewNode EXCEPT !.BoundingBox = h[seeds[1]].BoundingBox,
                             !.Children = <<seeds[1]>>,
                             !.IsLeaf = h[node].IsLeaf,
                             !.Parent = h[node].Parent],
             [NewNode EXCEPT !.BoundingBox = h[seeds[2]].BoundingBox,
                             !.Children = <<seeds[2]>>,
                             !.IsLeaf = h[node].IsLeaf,
                             !.Parent = h[node].Parent])

\* splitNodeIfNeeded (rtree.go:570-575)
splitNodeIfNeeded(m, node) ==
    IF ~nodeOverflowing(m.heap, node) THEN [m |-> m, sib |-> NIL]
    ELSE splitNode(m, node)

\* adjustTree (rtree.go:467-515).  split is what splitNodeIfNeeded returned:
\* the tree after it and the sibling (NIL when the node did not split).
\* Nothing runs after a panic.
RECURSIVE adjustTree(_, _)
adjustTree(split, node) ==
    IF split.m.panic THEN split.m
    ELSE IF split.sib = NIL
    THEN [split.m EXCEPT !.heap = updateMBRsUpward(@, node)]
    ELSE IF split.m.heap[node].Parent = NIL
    THEN LET newRoot == Alloc(split.m)
             h1 == [split.m.heap EXCEPT
                        ![newRoot] = [NewNode EXCEPT !.Children = <<node, split.sib>>],
                        ![node].Parent = newRoot,
                        ![split.sib].Parent = newRoot]
         IN [split.m EXCEPT
                !.heap = [h1 EXCEPT ![newRoot].BoundingBox =
                                        computeNodesMBR(h1, h1[newRoot].Children)],
                !.root = newRoot,
                !.used = @ \cup {newRoot}]
    ELSE LET parent == split.m.heap[node].Parent
             h1 == [split.m.heap EXCEPT ![node].BoundingBox =
                        computeNodesMBR(split.m.heap, split.m.heap[node].Children)]
             h2 == [h1 EXCEPT ![parent].Children = Append(@, split.sib),
                              ![split.sib].Parent = parent]
         IN adjustTree(splitNodeIfNeeded([split.m EXCEPT !.heap = h2], parent), parent)

\* Insert up to the append to the chosen leaf (rtree.go:518-529): the tree
\* and the leaf that splitNodeIfNeeded is about to be handed.
insertAppended(m, data) ==
    LET newEntry == Alloc(m)
        h0 == [m.heap EXCEPT ![newEntry] = newLeafNode(data)]
        leaf == chooseLeaf(h0, m.root, data.box)
    IN [m |-> [m EXCEPT !.heap = [h0 EXCEPT ![leaf].Children = Append(@, newEntry),
                                            ![newEntry].Parent = leaf],
                        !.used = @ \cup {newEntry}],
        leaf |-> leaf]

\* Insert (rtree.go:518-536).  A nil item panics in newLeafNode.
Insert(m, data) ==
    IF m.panic \/ data = NoData THEN [m EXCEPT !.panic = TRUE]
    ELSE LET newEntry == Alloc(m)
             h0 == [m.heap EXCEPT ![newEntry] = newLeafNode(data)]
             leaf == chooseLeaf(h0, m.root, data.box)
             h1 == [h0 EXCEPT ![leaf].Children = Append(@, newEntry),
                              ![newEntry].Parent = leaf]
         IN adjustTree(splitNodeIfNeeded([m EXCEPT !.heap = h1, !.used = @ \cup {newEntry}],
                                         leaf),
                       leaf)

-----------------------------------------------------------------------------
\* Query engine (part_001:3-55; the stack of stack.go)

\* A slice is the sequence it shows and the array behind it: NIL for an array
\* of its own, or the node whose Children array it shares.  Arguments passed
\* one by one arrive in a new array; cur.Children... passes the slice itself.
Variadic(items) == [items |-> items, array |-> NIL]

Spread(h, node) == [items |-> h[node].Children, array |-> node]

\* NewStackFrom (stack.go:12-18): the stack keeps the slice it is given.
NewStackFrom(items) == items

\* Empty (stack.go:26-28)
Empty(s) == Len(s.items) = 0

\* A Push that takes the pushed elements out of the slice they came from.
PushMoving(h, s, e) ==
    [heap |-> IF e.array = NIL THEN h ELSE [h EXCEPT ![e.array].Children = <<>>],
     stack |-> [items |-> s.items \o e.items, array |-> NIL]]

\* Push (stack.go:31-33): s.items = append(s.items, e...).  append writes
\* into the array behind s.items when the elements fit, and that array is
\* node memory when the stack shares it; otherwise it moves to a new array.
Push(h, s, e) ==
    IF s.array # NIL /\ Len(s.items) + Len(e.items) <= Len(h[s.array].Children)
    THEN [heap |-> [h EXCEPT ![s.array].Children =
                      [i \in 1..Len(@) |->
                          IF i > Len(s.items) /\ i <= Len(s.items) + Len(e.items)
                          THEN e.items[i - Len(s.items)] ELSE @[i]]],
          stack |-> [s EXCEPT !.items = @ \o e.items]]
    ELSE [heap |-> h,
          stack |-> [items |-> s.items \o e.items, array |-> NIL]]

\* Pop (stack.go:36-45): the last element, and the stack without it.
Pop(s) ==
    [item |-> s.items[Len(s.items)],
     stack |-> [s EXCEPT !.items = SubSeq(@, 1, Len(@) - 1)]]

\* entries = append(entries, e.Data) for each e of nodes.
DataOf(h, nodes) == [i \in 1..Len(nodes) |-> h[nodes[i]].Data]

\* The loop of Entries (part_001:9-21): the memory it leaves and the items.
\* EntriesVisit is one turn on the element popped, EntriesPushed the loop
\* going on after a Push.
RECURSIVE EntriesLoop(_, _, _)
EntriesPushed(pushed, entries) == EntriesLoop(pushed.heap, pushed.stack, entries)

EntriesVisit(h, popped, entries) ==
    IF h[popped.item].IsLeaf
    THEN EntriesLoop(h, popped.stack, entries \o DataOf(h, h[popped.item].Children))
    ELSE EntriesPushed(Push(h, popped.stack, Spread(h, popped.item)), entries)

EntriesLoop(h, stack, entries) ==
    IF Empty(stack) THEN [heap |-> h, out |-> entries]
    ELSE EntriesVisit(h, Pop(stack), entries)

\* Entries (part_001:3-24): a call, and the items it returns.
EntriesCall(h, r) == EntriesLoop(h, NewStackFrom(Variadic(<<r>>)), <<>>)

Entries(h, r) == EntriesCall(h, r).out

\* The loop of Query (part_001:32-52): the memory it leaves and the items.
RECURSIVE QueryLoop(_, _, _, _)
QueryPushed(pushed, r, results) == QueryLoop(pushed.heap, pushed.stack, r, results)

QueryVisit(h, popped, r, results) ==
    IF ~Intersects(h[popped.item].BoundingBox, r)
    THEN QueryLoop(h, popped.stack, r, results)
    ELSE IF h[popped.item].IsLeaf
    THEN QueryLoop(h, popped.stack, r,
                   results \o DataOf(h, SelectSeq(h[popped.item].Children,
                                   LAMBDA e : Intersects(h[e].BoundingBox, r))))
    ELSE QueryPushed(Push(h, popped.stack, Spread(h, popped.item)), r, results)

QueryLoop(h, stack, r, results) ==
    IF Empty(stack) THEN [heap |-> h, out |-> results]
    ELSE QueryVisit(h, Pop(stack), r, results)

\* Query (part_001:27-55): a call, and the items it returns.
QueryCall(h, rt, r) == QueryLoop(h, NewStackFrom(Variadic(<<rt>>)), r, <<>>)

Query(h, rt, r) == QueryCall(h, rt, r).out

-----------------------------------------------------------------------------
\* Delete engine (rtree.go:686-839)

\* removeNodeFromParent (rtree.go:687-703): removes the first occurrence.
RECURSIVE removeFirst(_, _, _)
removeFirst(children, node, i) ==
    IF i > Len(children) THEN children
    ELSE IF children[i] # node THEN removeFirst(children, node, i + 1)
    ELSE RemoveAt(children, i)

removeNodeFromParent(h, parent, node) ==
    IF parent = NIL THEN h
    ELSE [h EXCEPT ![parent].Children = removeFirst(@, node, 1)]

\* collectLeafNodes (rtree.go:716-726), over a list of nodes: the entries
\* below each node of the list, in order.
RECURSIVE collectLeafNodesOf(_, _)
collectLeafNodesOf(h, nodes) ==
    IF Len(nodes) = 0 THEN <<>>
    ELSE (IF h[Head(nodes)].IsLeaf THEN h[Head(nodes)].Children
          ELSE collectLeafNodesOf(h, h[Head(nodes)].Children))
         \o collectLeafNodesOf(h, Tail(nodes))

collectLeafNodes(h, node) == collectLeafNodesOf(h, <<node>>)

\* condenseTree (rtree.go:730-767): the heap after it and the orphans.
RECURSIVE condenseTreeLoop(_, _, _, _)
condenseTreeLoop(h, rt, currentNode, orphanedEntries) ==
    IF h[currentNode].Parent = NIL
    THEN [heap |-> updateNodeMBR(h, rt), orphans |-> orphanedEntries]
    ELSE LET parent == h[currentNode].Parent
         IN IF nodeUnderflowing(h, currentNode)
            THEN LET h1 == removeNodeFromParent(h, parent, currentNode)
                 IN condenseTreeLoop(h1, rt, parent,
                        orphanedEntries \o
                          (IF h1[currentNode].IsLeaf THEN h1[currentNode].Children
                           ELSE collectLeafNodes(h1, currentNode)))
            ELSE condenseTreeLoop(updateNodeMBR(h, currentNode), rt, parent, orphanedEntries)

condenseTree(h, rt, node) == condenseTreeLoop(h, rt, node, <<>>)

\* findLeaf (rtree.go:770-805)
RECURSIVE findLeafLoop(_, _, _, _)
findLeafLoop(h, stack, targetBoundingBox, targetID) ==
    IF Len(stack) = 0 THEN NIL
    ELSE LET node == stack[Len(stack)]
             rest == SubSeq(stack, 1, Len(stack) - 1)
         IN IF ~h[node].IsLeaf
            THEN IF Intersects(h[node].BoundingBox, targetBoundingBox)
                 THEN findLeafLoop(h, rest \o h[node].Children, targetBoundingBox, targetID)
                 ELSE findLeafLoop(h, rest, targetBoundingBox, targetID)
            ELSE IF \E i \in 1..Len(h[node].Children) :
                        /\ h[h[node].Children[i]].Data # NoData
                        /\ h[h[node].Children[i]].Data.id = targetID
                 THEN node
                 ELSE findLeafLoop(h, rest, targetBoundingBox, targetID)

\* A findLeaf that settles for the root when no leaf holds the ID.
findLeafOrRoot(h, rt, data) ==
    IF rt = NIL THEN NIL
    ELSE IF findLeafLoop(h, <<rt>>, data.box, data.id) = NIL THEN rt
    ELSE findLeafLoop(h, <<rt>>, data.box, data.id)

findLeaf(h, rt, data) ==
    IF rt = NIL THEN NIL ELSE findLeafLoop(h, <<rt>>, data.box, data.id)

\* The reinsertion loop of Delete (rtree.go:828-830).
RECURSIVE reinsert(_, _, _)
reinsert(m, orphanedEntries, i) ==
    IF m.panic \/ i > Len(orphanedEntries) THEN m
    ELSE reinsert(Insert(m, m.heap[orphanedEntries[i]].Data), orphanedEntries, i + 1)

\* The root compaction that ends Delete (rtree.go:833-836).
shrinkRoot(m, leaf) ==
    IF m.panic THEN m
    ELSE IF m.heap[leaf].Parent = NIL /\ Len(m.heap[leaf].Children) = 1
    THEN [m EXCEPT !.root = m.heap[leaf].Children[1],
                   !.heap[m.heap[leaf].Children[1]].Parent = NIL]
    ELSE m

\* Delete once findLeaf has returned leaf (rtree.go:813-838): c is what
\* condenseTree returned.
deleteCondensed(m, leaf, c) ==
    shrinkRoot(reinsert([m EXCEPT !.heap = c.heap], c.orphans, 1), leaf)

\* A Delete that leaves the children of the leaf as they were.
deleteFromKeepEntries(m, data, leaf) ==
    IF leaf = NIL THEN [m |-> m, err |-> TRUE]
    ELSE [m |-> deleteCondensed(m, leaf, condenseTree(m.heap, m.root, leaf)),
          err |-> FALSE]

\* A Delete that removes only the entries holding the very item passed.
deleteFromExactItem(m, data, leaf) ==
    IF leaf = NIL THEN [m |-> m, err |-> TRUE]
    ELSE [m |-> deleteCondensed(m, leaf,
                    condenseTree([m.heap EXCEPT ![leaf].Children =
                                     SelectSeq(@, LAMBDA entry : m.heap[entry].Data # data)],
                                 m.root, leaf)),
          err |-> FALSE]

deleteFrom(m, data, leaf) ==
    IF leaf = NIL THEN [m |-> m, err |-> TRUE]
    ELSE [m |-> deleteCondensed(m, leaf,
                    condenseTree([m.heap EXCEPT ![leaf].Children =
                                     SelectSeq(@, LAMBDA entry :
                                         ~(/\ m.heap[entry].Data # NoData
                                           /\ m.heap[entry].Data.id = data.id))],
                                 m.root, leaf)),
          err |-> FALSE]

\* Delete up to the removal of the entry from its leaf (rtree.go:808-820):
\* the memory condenseTree is handed.
deleteRemoved(m, data, leaf) ==
    [m.heap EXCEPT ![leaf].Children =
        SelectSeq(@, LAMBDA entry :
            ~(/\ m.heap[entry].Data # NoData /\ m.heap[entry].Data.id = data.id))]

\* Delete up to the end of the reinsertion loop (rtree.go:808-830): the leaf
\* findLeaf returned and the tree as the root compaction finds it.
reinsertedFrom(m, leaf, c) ==
    [leaf |-> leaf, m |-> reinsert([m EXCEPT !.heap = c.heap], c.orphans, 1)]

deleteReinserted(m, data, leaf) ==
    IF leaf = NIL THEN [leaf |-> NIL, m |-> m]
    ELSE reinsertedFrom(m, leaf,
             condenseTree([m.heap EXCEPT ![leaf].Children =
                              SelectSeq(@, LAMBDA entry :
                                  ~(/\ m.heap[entry].Data # NoData
                                    /\ m.heap[entry].Data.id = data.id))],
                          m.root, leaf))

\* Delete (rtree.go:808-839): the tree after the call and whether it returned
\* the error "node to delete not found".
Delete(m, data) == deleteFrom(m, data, findLeaf(m.heap, m.root, data))

-----------------------------------------------------------------------------
\* The program: NewRTree, then any sequence of Insert and Delete calls.

\* The number of live nodes that carry an item.
NumEntries(h) == Cardinality({ n \in NodeIds : h[n].Data # NoData })

\* No Rect method is called on its own.
NoCalc == [r |-> ZeroRect, s |-> ZeroRect, op |-> "none", out |-> FALSE]

\* A NewRTree whose root is not flagged as a leaf and that keeps no limits.
InitUnflagged ==
    /\ root = 1
    /\ heap = [n \in NodeIds |-> NewNode]
    /\ panicked = FALSE
    /\ stored = {}
    /\ dupSeen = FALSE
    /\ lastOp = "New"
    /\ lastErr = FALSE
    /\ minEntries = 0
    /\ maxEntries = 0
    /\ growth = [next |-> 1, deletes |-> 0]
    /\ calc = NoCalc

\* NewRTree (rtree.go:373-381): the root is an empty leaf.
Init ==
    /\ root = 1
    /\ heap = [n \in NodeIds |-> IF n = 1 THEN [NewNode EXCEPT !.IsLeaf = TRUE] ELSE NewNode]
    /\ panicked = FALSE
    /\ stored = {}
    /\ dupSeen = FALSE
    /\ lastOp = "New"
    /\ lastErr = FALSE
    /\ minEntries = MinEntries
    /\ maxEntries = MaxEntries
    /\ growth = [next |-> 1, deletes |-> 0]
    /\ calc = NoCalc

\* A call returns: the tree it leaves, and whether it panicked.
Return(m) ==
    /\ heap' = Reclaim(m).heap
    /\ root' = Reclaim(m).root
    /\ panicked' = m.panic

\* An item is inserted while it is not stored, up to MaxStored entries.
InsertAct(item) ==
    /\ ~panicked
    /\ item \notin stored
    /\ Cardinality(stored) < MaxStored
    /\ NumEntries(heap) < MaxStored
    /\ Return(Insert(Begin, item))
    /\ stored' = stored \cup {item}
    /\ dupSeen' = (dupSeen \/ \E s \in stored : s.id = item.id)
    /\ lastOp' = "Insert"
    /\ lastErr' = FALSE
    /\ UNCHANGED <<minEntries, maxEntries, growth, calc>>

DeleteReturn(d, item) ==
    /\ Return(d.m)
    /\ lastErr' = d.err
    /\ stored' = IF d.err THEN stored ELSE { s \in stored : s.id # item.id }

DeleteAct(item) ==
    /\ ~panicked
    /\ DeleteReturn(Delete(Begin, item), item)
    /\ dupSeen' = dupSeen
    /\ lastOp' = "Delete"
    /\ UNCHANGED <<minEntries, maxEntries, growth, calc>>

Next == \E item \in Universe : InsertAct(item) \/ DeleteAct(item)

Spec == Init /\ [][Next]_vars

\* The machine integers of the constructor's parameters: two's complement of
\* IntBits bits.
IntBits == 6

MinInt == -(2 ^ (IntBits - 1))

MaxInt == 2 ^ (IntBits - 1) - 1

MachineInts == MinInt..MaxInt

Wrap(x) == ((x - MinInt) % (2 ^ IntBits)) + MinInt

\* validateMinMax (rtree.go:384-389): TRUE when it returns an error.
validateMinMax(min, max) == min < MinEntries \/ max < Wrap(2 * min)

\* NewRTreeWithMinMax (rtree.go:392-402): the error, and the tree returned
\* (root NIL for no tree).
NewRTreeWithMinMax(min, max) ==
    IF validateMinMax(min, max)
    THEN [err |-> TRUE, root |-> NIL, minEntries |-> 0, maxEntries |-> 0]
    ELSE [err |-> FALSE, root |-> 1, minEntries |-> min, maxEntries |-> max]

\* The program makes its tree with NewRTreeWithMinMax, once.
NewRTreeWithMinMaxAct(min, max) ==
    /\ lastOp = "New"
    /\ root' = NewRTreeWithMinMax(min, max).root
    /\ heap' = [n \in NodeIds |->
                   IF n = NewRTreeWithMinMax(min, max).root
                   THEN [NewNode EXCEPT !.IsLeaf = TRUE] ELSE NewNode]
    /\ minEntries' = NewRTreeWithMinMax(min, max).minEntries
    /\ maxEntries' = NewRTreeWithMinMax(min, max).maxEntries
    /\ lastErr' = NewRTreeWithMinMax(min, max).err
    /\ lastOp' = "NewRTreeWithMinMax"
    /\ stored' = {}
    /\ UNCHANGED <<panicked, dupSeen, growth, calc>>

NextCtor == \E min \in MachineInts, max \in MachineInts : NewRTreeWithMinMaxAct(min, max)

SpecCtor == Init /\ [][NextCtor]_vars

\* A scripted workload that grows a tall tree, run in place of the free one:
\* the points of Script are inserted in order, and any of them may be left out
\* but never two in a row.
ScriptLen == 18

ScriptIds ==
    << "g1", "g2", "g3", "g4", "g5", "g6", "g7", "g8", "g9", "g10", "g11", "g12",
       "g13", "g14", "g15", "g16", "g17", "g18", "g19", "g20" >>

Script ==
    [i \in 1..ScriptLen |->
        Item(ScriptIds[i],
             NewRect((11 * i) % 23, 1 + ((3 * i) % 19), (11 * i) % 23, 1 + ((3 * i) % 19)))]

Unscripted == growth.next = 1

GrowAct(i) ==
    /\ ~panicked
    /\ growth.deletes = 0
    /\ \A s \in stored : \E k \in 1..ScriptLen : s = Script[k]
    /\ i \in growth.next..(growth.next + 1)
    /\ i <= ScriptLen
    /\ Return(Insert(Begin, Script[i]))
    /\ stored' = stored \cup {Script[i]}
    /\ growth' = [growth EXCEPT !.next = i + 1]
    /\ lastOp' = "Insert"
    /\ lastErr' = FALSE
    /\ UNCHANGED <<dupSeen, minEntries, maxEntries, calc>>

\* Up to MaxShrink Delete calls end the workload when it inserted the first
\* points of Script, at most ChurnLen of them, and left none out.
ChurnLen == 15

MaxShrink == 2

ShrinkAct(item) ==
    /\ ~panicked
    /\ growth.next <= ChurnLen + 1
    /\ growth.deletes < MaxShrink
    /\ Cardinality(stored) + growth.deletes = growth.next - 1
    /\ item \in stored
    /\ DeleteReturn(Delete(Begin, item), item)
    /\ growth' = [growth EXCEPT !.deletes = @ + 1]
    /\ lastOp' = "Delete"
    /\ UNCHANGED <<dupSeen, minEntries, maxEntries, calc>>

NextGrow ==
    \/ Unscripted /\ Next
    \/ \E i \in 1..ScriptLen : GrowAct(i)
    \/ \E i \in 1..ScriptLen : ShrinkAct(Script[i])

SpecGrow == Init /\ [][NextGrow]_vars

\* The workloads without any Delete: the free one and the scripted one.
NextInserts ==
    \/ Unscripted /\ \E item \in Universe : InsertAct(item)
    \/ \E i \in 1..ScriptLen : GrowAct(i)

SpecInserts == Init /\ [][NextInserts]_vars

\* The same program fed items that may share an ID.
NextDup == \E item \in UniverseDup : InsertAct(item) \/ DeleteAct(item)

SpecDup == Init /\ [][NextDup]_vars

\* The methods of Rect called on their own, once, on any two rectangles with
\* corners in 0..RectMax: normal-form or not, points and segments included.
RectMax == 2

Rects ==
    { NewRect(x1, y1, x2, y2) :
        x1 \in 0..RectMax, y1 \in 0..RectMax, x2 \in 0..RectMax, y2 \in 0..RectMax }

InitRect ==
    /\ root = 1
    /\ heap = [n \in NodeIds |-> IF n = 1 THEN [NewNode EXCEPT !.IsLeaf = TRUE] ELSE NewNode]
    /\ panicked = FALSE
    /\ stored = {}
    /\ dupSeen = FALSE
    /\ lastOp = "New"
    /\ lastErr = FALSE
    /\ minEntries = MinEntries
    /\ maxEntries = MaxEntries
    /\ growth = [next |-> 1, deletes |-> 0]
    /\ \E r \in Rects, s \in Rects : calc = [NoCalc EXCEPT !.r = r, !.s = s]

\* Everything but calc: no tree is touched by a Rect method.
tree == <<heap, root, panicked, stored, dupSeen, lastOp, lastErr,
          minEntries, maxEntries, growth>>

ExpandAct ==
    /\ calc.op = "none"
    /\ calc' = [calc EXCEPT !.op = "Expand", !.out = Expand(calc.r, calc.s)]
    /\ UNCHANGED tree

ContainsAct ==
    /\ calc.op = "none"
    /\ calc' = [calc EXCEPT !.op = "Contains", !.out = Contains(calc.r, calc.s)]
    /\ UNCHANGED tree

IntersectsAct ==
    /\ calc.op = "none"
    /\ calc' = [calc EXCEPT !.op = "Intersects", !.out = Intersects(calc.r, calc.s)]
    /\ UNCHANGED tree

EnlargementAct ==
    /\ calc.op = "none"
    /\ calc' = [calc EXCEPT !.op = "Enlargement", !.out = Enlargement(calc.r, calc.s)]
    /\ UNCHANGED tree

NextRect == ExpandAct \/ ContainsAct \/ IntersectsAct \/ EnlargementAct

SpecRect == InitRect /\ [][NextRect]_vars

-----------------------------------------------------------------------------
\* What a caller can observe of a state, and the shapes the properties speak of.

WorldRect == NewRect(-180, -90, 180, 90)

\* The rectangles queried: the zero rectangle, a stored point, two regions
\* and the whole world.
QueryRects ==
    { ZeroRect, NewRect(1, 1, 1, 1), NewRect(2, 1, 4, 2), NewRect(3, 2, 5, 4), WorldRect }

\* All rectangles, well formed or not, with corners in -1..1.
SmallRects ==
    { NewRect(x1, y1, x2, y2) : x1 \in -1..1, y1 \in -1..1, x2 \in -1..1, y2 \in -1..1 }

\* The rectangles queried on the scripted workload: those of QueryRects, two
\* regions among the points of Script, and the box of every stored item.
ProbeRects ==
    QueryRects \cup { NewRect(5, 5, 15, 12), NewRect(0, 0, 11, 10) }
               \cup { x.box : x \in stored }

SeqToSet(s) == { s[i] : i \in 1..Len(s) }

Count(x, s) == Cardinality({ i \in 1..Len(s) : s[i] = x })

\* Two sequences of items hold the same multiset.
SameBag(s, t) == \A x \in SeqToSet(s) \cup SeqToSet(t) : Count(x, s) = Count(x, t)

\* The sequence out holds exactly the members of S, each once.
EachOnce(out, S) == SeqToSet(out) = S /\ Len(out) = Cardinality(S)

HasId(s, id) == \E i \in 1..Len(s) : s[i].id = id

\* How many items of a sequence carry the ID, and how many entries of a leaf.
IdCount(s, id) == Cardinality({ i \in 1..Len(s) : s[i].id = id })

InLeaf(h, leaf, id) ==
    IF leaf = NIL THEN 0
    ELSE Cardinality({ i \in 1..Len(h[leaf].Children) : h[h[leaf].Children[i]].Data.id = id })

StoredIds == { s.id : s \in stored }

LiveNodes == Live(heap, root)

\* The IDs carried by the entry nodes of the tree.
TreeIds == { heap[n].Data.id : n \in { k \in LiveNodes : heap[k].Data # NoData } }

\* The depths (edges below the root) at which nodes carrying an item occur,
\* and at which nodes flagged IsLeaf occur.
RECURSIVE EntryDepths(_, _, _)
EntryDepths(h, frontier, d) ==
    IF frontier = {} THEN {}
    ELSE (IF \E n \in frontier : h[n].Data # NoData THEN {d} ELSE {})
         \cup EntryDepths(h, UNION { SeqToSet(h[n].Children) : n \in frontier }, d + 1)

RECURSIVE LeafDepths(_, _, _)
LeafDepths(h, frontier, d) ==
    IF frontier = {} THEN {}
    ELSE (IF \E n \in frontier : h[n].IsLeaf THEN {d} ELSE {})
         \cup LeafDepths(h, UNION { SeqToSet(h[n].Children) : n \in frontier }, d + 1)

\* The union of the boxes of a non-empty list of nodes, with nothing added.
RECURSIVE UnionFrom(_, _, _, _)
UnionFrom(h, nodes, i, acc) ==
    IF i > Len(nodes) THEN acc
    ELSE UnionFrom(h, nodes, i + 1, Expand(acc, h[nodes[i]].BoundingBox))

ExactUnion(h, nodes) ==
    IF Len(nodes) = 0 THEN ZeroRect
    ELSE UnionFrom(h, nodes, 2, h[nodes[1]].BoundingBox)

\* The nodes reached from the root through Children, the structural ones
\* among them (no item) and the entries (an item).
RECURSIVE Below(_, _)
Below(h, S) ==
    LET T == S \cup UNION { SeqToSet(h[n].Children) : n \in S }
    IN IF T = S THEN S ELSE Below(h, T)

TreeNodes == Below(heap, {root})

Structural(n) == heap[n].Data = NoData

IsEntry(n) == heap[n].Data # NoData

\* How many times a node occurs in the Children of the nodes of the tree.
Occurrences(c) ==
    Cardinality(UNION { { <<n, i>> : i \in { k \in 1..Len(heap[n].Children) :
                                                heap[n].Children[k] = c } } :
                        n \in TreeNodes })

\* The tree has three levels of structural nodes: some internal node is not
\* the root.
Tall == \E n \in TreeNodes : n # root /\ Structural(n) /\ ~heap[n].IsLeaf

\* An internal node other than the root was split: the root has three or more
\* internal children.
InteriorSplit ==
    /\ Structural(root) /\ ~heap[root].IsLeaf
    /\ Len(heap[root].Children) >= 3
    /\ \A i \in 1..Len(heap[root].Children) :
          Structural(heap[root].Children[i]) /\ ~heap[heap[root].Children[i]].IsLeaf

\* The root is an internal node over at least two leaves.
TwoLeaves ==
    /\ ~heap[root].IsLeaf
    /\ heap[root].Data = NoData
    /\ Len(heap[root].Children) >= 2
    /\ \A i \in 1..Len(heap[root].Children) : heap[heap[root].Children[i]].IsLeaf

-----------------------------------------------------------------------------
\* Properties.  Spec feeds the tree items with pairwise distinct IDs, so
\* stored is exactly the set of items inserted and not deleted.

\* C1: after any sequence of Insert and Delete calls with distinct IDs, Query
\* over the world rectangle and Entries return the same number of items, that
\* number is (items inserted) - (items deleted), and every stored item is
\* returned by Entries.
C1_CountsMatchStored ==
    ~panicked =>
        /\ Len(Query(heap, root, WorldRect)) = Len(Entries(heap, root))
        /\ Len(Entries(heap, root)) = Cardinality(stored)
        /\ stored \subseteq SeqToSet(Entries(heap, root))

\* C2: for every rectangle r, Query(r) returns exactly the stored items whose
\* box intersects r: none missing and none extra.
C2_QueryExact ==
    ~panicked =>
        \A r \in QueryRects :
            SeqToSet(Query(heap, root, r)) = { x \in stored : Intersects(x.box, r) }

\* C3: Insert is total: no Insert call aborts, whatever the boxes of the
\* stored items (collinear points included).
C3_InsertTotal == lastOp = "Insert" => ~panicked

\* C4: on a tree that contains x, Delete(x) followed by Insert(x) leaves the
\* multiset returned by Entries as it was.
C4_DeleteInsertRoundTrip ==
    ~panicked =>
        \A x \in SeqToSet(Entries(heap, root)) :
            SameBag(Entries(Insert(Delete(Begin, x).m, x).heap,
                            Insert(Delete(Begin, x).m, x).root),
                    Entries(heap, root))

\* C5: Delete(x) succeeds for every item x that was inserted and not yet
\* deleted.
C5_DeleteStoredSucceeds ==
    ~panicked => \A x \in stored : ~Delete(Begin, x).err

\* C6: when no stored entry has the item's ID, Delete(item) returns the
\* NotFound error and leaves the tree as it was: the same root, the same
\* nodes (children, parent links, bounding boxes), and so the same Entries()
\* and the same Query results.
C6_NotFoundLeavesTreeUnchanged ==
    ~panicked =>
        \A item \in Universe : item.id \notin StoredIds =>
            /\ Delete(Begin, item).err
            /\ ~Delete(Begin, item).m.panic
            /\ Reclaim(Delete(Begin, item).m) = [heap |-> heap, root |-> root]
            /\ Entries(Delete(Begin, item).m.heap, Delete(Begin, item).m.root)
                  = Entries(heap, root)
            /\ \A r \in QueryRects :
                  Query(Delete(Begin, item).m.heap, Delete(Begin, item).m.root, r)
                    = Query(heap, root, r)

\* A Delete has just returned NotFound on a tree of at least two leaves that
\* holds items, and some item's ID is still absent from it.
C6_Witness ==
    /\ lastOp = "Delete" /\ lastErr /\ ~panicked
    /\ TwoLeaves
    /\ Len(Entries(heap, root)) >= 3
    /\ \E item \in Universe : item.id \notin StoredIds /\ Delete(Begin, item).err

\* C7: on a tree whose items have pairwise distinct IDs, after a successful
\* Delete(x) neither Query(x's box) nor Entries() holds an item with x's ID.
C7_DeletedIdGone ==
    ~panicked =>
        \A x \in Universe :
            (~Delete(Begin, x).err /\ ~Delete(Begin, x).m.panic) =>
                /\ ~HasId(Entries(Reclaim(Delete(Begin, x).m).heap,
                                  Reclaim(Delete(Begin, x).m).root), x.id)
                /\ ~HasId(Query(Reclaim(Delete(Begin, x).m).heap,
                                Reclaim(Delete(Begin, x).m).root, x.box), x.id)

\* A successful Delete has just returned on a tree of at least two leaves, and
\* a stored item can be deleted from it with items left to return.
C7_Witness ==
    /\ lastOp = "Delete" /\ ~lastErr /\ ~panicked
    /\ TwoLeaves
    /\ \E x \in stored :
          /\ ~Delete(Begin, x).err /\ ~Delete(Begin, x).m.panic
          /\ Len(Entries(Delete(Begin, x).m.heap, Delete(Begin, x).m.root)) >= 3

\* C8 as stated: when several stored items share an ID, a successful Delete
\* with that ID leaves Entries() without any item of that ID, whichever
\* leaves held them.
C8_AllDuplicatesRemoved ==
    ~panicked =>
        \A x \in UniverseDup :
            (~Delete(Begin, x).err /\ ~Delete(Begin, x).m.panic) =>
                ~HasId(Entries(Delete(Begin, x).m.heap, Delete(Begin, x).m.root), x.id)

\* C8: a successful Delete with an ID removes every entry with that ID held by
\* the leaf findLeaf locates: Entries() loses at least that many items of the
\* ID, so it has none left when that leaf held them all; entries with the ID
\* in other leaves are not looked for.
C8_LocatedLeafDuplicatesRemoved ==
    ~panicked =>
        \A x \in UniverseDup :
            (~Delete(Begin, x).err /\ ~Delete(Begin, x).m.panic) =>
                IdCount(Entries(Delete(Begin, x).m.heap, Delete(Begin, x).m.root), x.id)
                  <= IdCount(Entries(heap, root), x.id)
                       - InLeaf(heap, findLeaf(heap, root, x), x.id)

\* Two stored items share an ID, one leaf of a tree of several leaves holds
\* both, and a Delete with that ID succeeds and leaves items behind.
C8_Witness ==
    /\ ~panicked /\ dupSeen /\ TwoLeaves
    /\ \E x \in UniverseDup :
          /\ IdCount(Entries(heap, root), x.id) = 2
          /\ InLeaf(heap, findLeaf(heap, root, x), x.id) = 2
          /\ ~Delete(Begin, x).err /\ ~Delete(Begin, x).m.panic
          /\ Len(Entries(Delete(Begin, x).m.heap, Delete(Begin, x).m.root)) >= 2

\* C9: the bounding box of every node that is not an entry and has children
\* is exactly the union of its children's boxes, with nothing added.
C9_BoxIsExactUnion ==
    ~panicked =>
        \A n \in LiveNodes :
            (heap[n].Data = NoData /\ Len(heap[n].Children) > 0) =>
                heap[n].BoundingBox = ExactUnion(heap, heap[n].Children)

\* C10: all leaves are at one depth below the root, and every entry is reached
\* from the root through the same number of nodes.
C10_LeavesAtOneDepth ==
    ~panicked =>
        /\ Cardinality(LeafDepths(heap, {root}, 0)) <= 1
        /\ Cardinality(EntryDepths(heap, {root}, 0)) <= 1

\* C11: every structural node other than the root has at least minEntries and
\* at most maxEntries children, and the root has at most maxEntries children.
C11_FanOut ==
    ~panicked =>
        \A n \in TreeNodes : Structural(n) =>
            /\ Len(heap[n].Children) <= maxEntries
            /\ n # root => Len(heap[n].Children) >= minEntries

\* Two Delete calls have succeeded on a tall tree and left it tall, with a
\* leaf holding just minEntries entries and a node holding maxEntries children.
C11_Witness ==
    /\ ~panicked /\ lastOp = "Delete" /\ ~lastErr
    /\ growth.deletes = MaxShrink
    /\ Tall
    /\ \E n \in TreeNodes \ {root} : heap[n].IsLeaf /\ Len(heap[n].Children) = minEntries
    /\ \E n \in TreeNodes : Structural(n) /\ Len(heap[n].Children) = maxEntries

\* C12: the Parent of every child of a node of the tree is that node, and the
\* root has no Parent.
C12_ParentLinks ==
    ~panicked =>
        /\ heap[root].Parent = NIL
        /\ \A n \in TreeNodes : \A i \in 1..Len(heap[n].Children) :
              heap[heap[n].Children[i]].Parent = n

\* An Insert has just returned, and a leaf, an internal node and the root
\* have been split on the way to this tree.
C12_Witness ==
    /\ ~panicked /\ lastOp = "Insert"
    /\ InteriorSplit
    /\ \E n \in TreeNodes : heap[n].IsLeaf /\ heap[n].Parent # NIL /\ heap[heap[n].Parent].Parent # NIL

\* C13: the children of a node flagged IsLeaf are entries without children,
\* the children of a structural node not flagged IsLeaf are structural, and
\* an entry has no children.
C13_LeavesHoldEntries ==
    ~panicked =>
        \A n \in TreeNodes :
            /\ heap[n].IsLeaf =>
                  \A i \in 1..Len(heap[n].Children) :
                      /\ IsEntry(heap[n].Children[i])
                      /\ Len(heap[heap[n].Children[i]].Children) = 0
            /\ (Structural(n) /\ ~heap[n].IsLeaf) =>
                  \A i \in 1..Len(heap[n].Children) : Structural(heap[n].Children[i])
            /\ IsEntry(n) => Len(heap[n].Children) = 0

\* How many times an item is held by an entry under a leaf of the tree.
LeafSlots(x) ==
    Cardinality(UNION { { <<n, i>> : i \in { k \in 1..Len(heap[n].Children) :
                                                heap[heap[n].Children[k]].Data = x } } :
                        n \in { l \in TreeNodes : heap[l].IsLeaf } })

\* C20: every stored entry is a child of exactly one leaf, every structural
\* node but the root a child of exactly one node, and neither Entries() nor
\* Query returns a stored item twice.
C20_OneParentEach ==
    ~panicked =>
        /\ \A x \in stored : LeafSlots(x) = 1
        /\ \A n \in TreeNodes \ {root} : Structural(n) => Occurrences(n) = 1
        /\ \A x \in stored : Count(x, Entries(heap, root)) <= 1
        /\ \A r \in QueryRects : \A x \in stored : Count(x, Query(heap, root, r)) <= 1

\* C14: NewRTreeWithMinMax(min, max) succeeds exactly when min >= 2 and
\* max >= 2 * min, for every pair of machine integers; a success returns a
\* tree with Min() = min and Max() = max, a failure an error and no tree.
C14_ConstructorValidates ==
    /\ \A min \in MachineInts, max \in MachineInts :
          /\ ~NewRTreeWithMinMax(min, max).err <=> (min >= 2 /\ max >= 2 * min)
          /\ ~NewRTreeWithMinMax(min, max).err =>
                /\ NewRTreeWithMinMax(min, max).minEntries = min
                /\ NewRTreeWithMinMax(min, max).maxEntries = max
          /\ NewRTreeWithMinMax(min, max).err => NewRTreeWithMinMax(min, max).root = NIL
    /\ (lastOp = "NewRTreeWithMinMax" /\ ~lastErr) =>
          (minEntries >= 2 /\ maxEntries >= 2 * minEntries)

\* C15: NewRTree() yields a tree with Min() = 2 and Max() = 4 whose root is an
\* empty leaf with the zero bounding box; on it Entries() is empty and
\* Query(r) is empty for every rectangle r, the zero rectangle included.
C15_NewTree ==
    lastOp = "New" =>
        /\ minEntries = 2 /\ maxEntries = 4
        /\ heap[root].IsLeaf
        /\ heap[root].Children = <<>>
        /\ heap[root].BoundingBox = NewRect(0, 0, 0, 0)
        /\ heap[root].Parent = NIL
        /\ heap[root].Data = NoData
        /\ Entries(heap, root) = <<>>
        /\ \A r \in QueryRects \cup SmallRects : Query(heap, root, r) = <<>>

\* The tree NewRTree() returned, before any other call.
C15_Witness == lastOp = "New" /\ root # NIL /\ ~panicked /\ stored = {}

\* C16: after Insert calls only, of items with distinct IDs on a fresh tree,
\* Entries() returns each inserted item exactly once: its length is the
\* number of Insert calls, whatever leaves, internal nodes and roots were split.
C16_EntriesAfterInserts ==
    ~panicked => EachOnce(Entries(heap, root), stored)

\* Fifteen or more items were inserted and a leaf, an internal node and the
\* root have been split.
C16_Witness ==
    /\ ~panicked /\ lastOp = "Insert"
    /\ InteriorSplit
    /\ Cardinality(stored) >= 15
    /\ Len(Entries(heap, root)) >= 15

\* C17: after Insert calls only on a fresh tree, Query(r) returns exactly the
\* inserted items whose box intersects r, each once, for every rectangle r:
\* the zero rectangle and the box of a stored point included.
C17_QueryAfterInserts ==
    ~panicked =>
        \A r \in ProbeRects :
            EachOnce(Query(heap, root, r), { x \in stored : Intersects(x.box, r) })

\* A tree of three levels after Insert calls only, on which a region holds
\* some of the stored items and not the others.
C17_Witness ==
    /\ ~panicked /\ lastOp = "Insert"
    /\ Tall
    /\ \E r \in ProbeRects :
          /\ Len(Query(heap, root, r)) >= 3
          /\ Len(Query(heap, root, r)) < Cardinality(stored)
    /\ \E x \in stored : Len(Query(heap, root, x.box)) = 1

\* C18: on a tree holding exactly one item x, Delete(x) succeeds and leaves
\* Entries() empty and the root an empty leaf again, and an Insert(y) that
\* follows makes Entries() return exactly y.
C18_SingleItemDelete ==
    ~panicked =>
        \A x \in Universe : stored = {x} =>
            /\ ~Delete(Begin, x).err
            /\ ~Delete(Begin, x).m.panic
            /\ Entries(Delete(Begin, x).m.heap, Delete(Begin, x).m.root) = <<>>
            /\ Delete(Begin, x).m.heap[Delete(Begin, x).m.root].IsLeaf
            /\ Delete(Begin, x).m.heap[Delete(Begin, x).m.root].Children = <<>>
            /\ \A y \in Universe :
                  Entries(Insert(Delete(Begin, x).m, y).heap,
                          Insert(Delete(Begin, x).m, y).root) = <<y>>

\* The finished Query(r) call left every node as it was, and the same call
\* made again returns the same set.
Repeatable(call, r) ==
    /\ call.heap = heap
    /\ SeqToSet(Query(call.heap, root, r)) = SeqToSet(call.out)

\* C19: Query and Entries are read-only: a call leaves the root and every
\* node (children, parent link, IsLeaf flag, bounding box) as they were, and
\* Query(r) called twice in a row returns the same set.
C19_ReadOnly ==
    ~panicked =>
        /\ EntriesCall(heap, root).heap = heap
        /\ \A r \in ProbeRects : Repeatable(QueryCall(heap, root, r), r)

\* A tree of three levels holding items, on which both calls push the
\* children of internal nodes and a query returns some items and prunes others.
C19_Witness ==
    /\ ~panicked /\ Tall
    /\ Len(Entries(heap, root)) >= 11
    /\ \E r \in ProbeRects :
          /\ Len(Query(heap, root, r)) >= 2
          /\ Len(Query(heap, root, r)) < Len(Entries(heap, root))

-----------------------------------------------------------------------------
\* Properties of Rect, on the rectangles of SpecRect.

\* A rectangle is in normal form when its minima do not exceed its maxima.
Normal(r) == r.MinX <= r.MaxX /\ r.MinY <= r.MaxY

\* The grid points a rectangle covers, edges and corners included.
Points(r) == { <<x, y>> : x \in r.MinX..r.MaxX, y \in r.MinY..r.MaxY }

Least(S) == CHOOSE x \in S : \A y \in S : x <= y

Greatest(S) == CHOOSE x \in S : \A y \in S : x >= y

\* The smallest rectangle around two rectangles, side by side.
Hull(r, s) ==
    [MinX |-> Least({r.MinX, s.MinX}), MinY |-> Least({r.MinY, s.MinY}),
     MaxX |-> Greatest({r.MaxX, s.MaxX}), MaxY |-> Greatest({r.MaxY, s.MaxY})]

\* C21: Intersects is symmetric for all rectangles, reflexive for every
\* normal-form rectangle, and true for two normal-form rectangles that share
\* any point, be it only on an edge or a corner.
C21_IntersectsSymmetric ==
    calc.op = "Intersects" =>
        /\ calc.out = Intersects(calc.s, calc.r)
        /\ (Normal(calc.r) => Intersects(calc.r, calc.r))
        /\ (Normal(calc.r) /\ Normal(calc.s) /\ Points(calc.r) \cap Points(calc.s) # {}
               => calc.out)

\* Intersects was called on two rectangles of positive area that meet in one
\* corner only, and returned true.
C21_Witness ==
    /\ calc.op = "Intersects" /\ calc.out
    /\ Area(calc.r) > 0 /\ Area(calc.s) > 0
    /\ Normal(calc.r) /\ Normal(calc.s)
    /\ Cardinality(Points(calc.r) \cap Points(calc.s)) = 1

\* C22: for normal-form rectangles r and s, points and segments included,
\* r.Enlargement(s) is never negative and is zero exactly when r contains s.
C22_EnlargementZeroIffContains ==
    calc.op = "Enlargement" /\ Normal(calc.r) /\ Normal(calc.s) =>
        /\ calc.out >= 0
        /\ (calc.out = 0 <=> Contains(calc.r, calc.s))

\* C23: Expand computes the componentwise union, is commutative, and leaves r
\* unchanged when r is expanded by itself or by a rectangle it contains.
C23_ExpandIsUnion ==
    calc.op = "Expand" =>
        /\ calc.out = Hull(calc.r, calc.s)
        /\ calc.out = Expand(calc.s, calc.r)
        /\ Expand(calc.r, calc.r) = calc.r
        /\ (Contains(calc.r, calc.s) => calc.out = calc.r)

\* Expand was called on two rectangles neither of which contains the other,
\* and returned a rectangle that is neither of them.
C23_Witness ==
    /\ calc.op = "Expand"
    /\ Normal(calc.r) /\ Normal(calc.s)
    /\ ~Contains(calc.r, calc.s) /\ ~Contains(calc.s, calc.r)
    /\ calc.out # calc.r /\ calc.out # calc.s

\* C24: for normal-form rectangles r and s, r.Contains(s) implies
\* r.Intersects(s), and s is contained when every point of it, the edges
\* included, is a point of r: equal boundaries count as contained.
C24_ContainsImpliesIntersects ==
    calc.op = "Contains" /\ Normal(calc.r) /\ Normal(calc.s) =>
        /\ (calc.out => Intersects(calc.r, calc.s))
        /\ (Points(calc.s) \subseteq Points(calc.r) => calc.out)

\* Contains was called on a rectangle and a smaller one that shares two of
\* its edges, and returned true.
C24_Witness ==
    /\ calc.op = "Contains" /\ calc.out
    /\ Normal(calc.r) /\ Normal(calc.s)
    /\ calc.s # calc.r
    /\ calc.s.MinX = calc.r.MinX /\ calc.s.MaxY = calc.r.MaxY
-----------------------------------------------------------------------------
\* Properties of the root, the boxes and the split.

\* The root compaction did what the rule asks: pre is the tree it found,
\* post the tree Delete left.
Compacted(pre, post) ==
    LET rt == pre.root
        only == pre.heap[rt].Children[1]
    IN Len(pre.heap[rt].Children) = 1 =>
          /\ pre.heap[only].Data = NoData =>
                 post.root = only /\ post.heap[only].Parent = NIL
          /\ pre.heap[rt].IsLeaf /\ pre.heap[only].Data # NoData =>
                 post.root = rt /\ post.heap[rt].IsLeaf

\* C25: at the end of every successful Delete, a root with exactly one child
\* that is a structural node is replaced by that child, whose parent becomes
\* nil; a root leaf left with a single entry stays the root and stays a leaf.
C25_RootShrink ==
    ~panicked =>
        \A x \in stored :
            ~Delete(Begin, x).err /\ ~Delete(Begin, x).m.panic =>
                Compacted(deleteReinserted(Begin, x, findLeaf(heap, root, x)).m,
                          Delete(Begin, x).m)

\* C26: in every state reached by Insert and Delete calls the root is a
\* structural node: it carries no item, and it is not an internal node
\* without children, which the next Insert would hand its entry directly.
C26_RootStructural ==
    ~panicked =>
        /\ heap[root].Data = NoData
        /\ (heap[root].Children = <<>> => heap[root].IsLeaf)

\* The entries in the subtree of a node.
EntriesBelow(n) == { e \in Below(heap, {n}) : IsEntry(e) }

\* Whenever the box of n does not intersect a probe rectangle, none of the
\* entries es does.
PrunedSafely(n, es) ==
    \A r \in ProbeRects :
        ~Intersects(heap[n].BoundingBox, r) =>
            \A e \in es : ~Intersects(heap[e].BoundingBox, r)

\* C27: after any sequence of Insert and Delete calls the box of every
\* structural node contains the box of each of its children, so a subtree
\* that Query prunes, its box not intersecting r, holds no entry
\* intersecting r.
C27_Covering ==
    ~panicked =>
        \A n \in TreeNodes : Structural(n) =>
            /\ \A i \in 1..Len(heap[n].Children) :
                  Contains(heap[n].BoundingBox, heap[heap[n].Children[i]].BoundingBox)
            /\ PrunedSafely(n, EntriesBelow(n))

\* After a Delete, in a tree of three levels, the box of an internal node
\* below the root misses a probe rectangle that a stored item intersects.
C27_Witness ==
    /\ ~panicked /\ lastOp = "Delete" /\ ~lastErr
    /\ Tall
    /\ \E n \in TreeNodes, r \in ProbeRects :
          /\ n # root /\ Structural(n) /\ ~heap[n].IsLeaf
          /\ ~Intersects(heap[n].BoundingBox, r)
          /\ \E x \in stored : Intersects(x.box, r)

\* The items a caller may insert next: any item of Universe not stored, and
\* the next two points of the script.
Offered ==
    (Universe \cup { Script[i] : i \in { k \in 1..ScriptLen :
                                             k >= growth.next /\ k <= growth.next + 1 } })
        \ stored

\* splitNode turned node N of the tree pre, holding kids, into the groups the
\* rule describes: split is what it returned.
SplitsWell(pre, N, kids, split) ==
    LET h == split.m.heap
        B == split.sib
    IN /\ ~split.m.panic
       /\ B # NIL /\ B # N /\ B \notin pre.used
       /\ SeqToSet(h[N].Children) \cup SeqToSet(h[B].Children) = SeqToSet(kids)
       /\ Len(h[N].Children) + Len(h[B].Children) = Len(kids)
       /\ \A g \in {N, B} :
             /\ Len(h[g].Children) >= minEntries
             /\ Len(h[g].Children) <= maxEntries
             /\ h[g].BoundingBox = ExactUnion(h, h[g].Children)
             /\ \A i \in 1..Len(h[g].Children) : h[h[g].Children[i]].Parent = g
       /\ h[N].Parent = pre.heap[N].Parent
       /\ \A p \in pre.used \ {N} : h[p].Children = pre.heap[p].Children
       /\ h[B].IsLeaf = pre.heap[N].IsLeaf
       /\ h[N].IsLeaf = pre.heap[N].IsLeaf

\* The leaf an Insert appended to overflows and is split well.
OverflowSplitsWell(app) ==
    nodeOverflowing(app.m.heap, app.leaf) =>
        SplitsWell(app.m, app.leaf, app.m.heap[app.leaf].Children,
                   splitNode(app.m, app.leaf))

\* C28: the split of a node N holding max_entries+1 children yields groups A
\* and B that partition N's children, each of min_entries to max_entries
\* children and with the union of its members as box; N is overwritten with
\* A, so its parent's pointer to it stays valid, the children of A have
\* parent N and those of B parent B, B takes N's IsLeaf flag and is returned.
C28_SplitPartitions ==
    ~panicked => \A x \in Offered : OverflowSplitsWell(insertAppended(Begin, x))

\* Child i of a node is preferred to child j for a new box: less enlargement,
\* then less area, then the earlier place among the children.
Preferred(h, children, box, i, j) ==
    LET ei == Enlargement(h[children[i]].BoundingBox, box)
        ej == Enlargement(h[children[j]].BoundingBox, box)
        ai == Area(h[children[i]].BoundingBox)
        aj == Area(h[children[j]].BoundingBox)
    IN ei < ej \/ (ei = ej /\ (ai < aj \/ (ai = aj /\ i <= j)))

\* The leaf the rule of least enlargement leads to from a node, NIL when the
\* descent ends at a node that is no leaf.
RECURSIVE LeastEnlargementLeaf(_, _, _)
LeastEnlargementLeaf(h, node, box) ==
    IF h[node].IsLeaf THEN node
    ELSE IF Len(h[node].Children) = 0 THEN NIL
    ELSE LeastEnlargementLeaf(h,
             h[node].Children[CHOOSE i \in 1..Len(h[node].Children) :
                 \A j \in 1..Len(h[node].Children) :
                     Preferred(h, h[node].Children, box, i, j)],
             box)

\* C29: chooseLeaf descends, at each node that is no leaf, into the child
\* whose box needs the least enlargement to take the new box, among those
\* the one of smaller area, among those the first; it ends at a leaf.
C29_ChooseLeafLeastEnlargement ==
    ~panicked =>
        \A x \in Offered :
            /\ chooseLeaf(heap, root, x.box) = LeastEnlargementLeaf(heap, root, x.box)
            /\ heap[chooseLeaf(heap, root, x.box)].IsLeaf

\* The group the rule gives an entry: A while A is short of min_entries, else
\* B while B is short, else the group of smaller enlargement, else the group
\* of smaller area, else A.
GroupByRule(h, call) ==
    LET enlargeA == Enlargement(call.groupA.BoundingBox, h[call.entry].BoundingBox)
        enlargeB == Enlargement(call.groupB.BoundingBox, h[call.entry].BoundingBox)
        areaA == Area(call.groupA.BoundingBox)
        areaB == Area(call.groupB.BoundingBox)
    IN IF Len(call.groupA.Children) < minEntries THEN "A"
       ELSE IF Len(call.groupB.Children) < minEntries THEN "B"
       ELSE IF enlargeA # enlargeB THEN (IF enlargeA < enlargeB THEN "A" ELSE "B")
       ELSE IF areaA # areaB THEN (IF areaA < areaB THEN "A" ELSE "B")
       ELSE "A"

\* Every chooseGroup call of the list answered as the rule says.
GroupedByRule(h, calls) ==
    \A k \in 1..Len(calls) :
        chooseGroup(h, calls[k].entry, calls[k].groupA, calls[k].groupB)
            = GroupByRule(h, calls[k])

\* The chooseGroup calls of the split that follows an Insert's append.
CallsAfter(app) ==
    IF nodeOverflowing(app.m.heap, app.leaf)
    THEN splitNodeCalls(app.m.heap, app.leaf, pickSeeds(app.m.heap, app.leaf))
    ELSE <<>>

AppendGroupedByRule(app) == GroupedByRule(app.m.heap, CallsAfter(app))

\* C30: chooseGroup gives the picked entry to A if A has fewer than
\* min_entries children, else to B if B has fewer, else to the group needing
\* the smaller enlargement, else to the group of smaller area, else to A.
C30_ChooseGroupOrder ==
    ~panicked => \A x \in Offered : AppendGroupedByRule(insertAppended(Begin, x))

\* The first ordered pair of children, rows first, whose enlargement of the
\* first box by the second is the greatest over all ordered pairs.
FirstMaxPair(h, children) ==
    LET n == Len(children)
        enl(i, j) == Enlargement(h[children[i]].BoundingBox, h[children[j]].BoundingBox)
        top == Greatest({ enl(i, j) : i \in 1..n, j \in 1..n })
        best == { p \in (1..n) \X (1..n) : enl(p[1], p[2]) = top }
        first == CHOOSE p \in best :
                     \A q \in best : p[1] < q[1] \/ (p[1] = q[1] /\ p[2] <= q[2])
    IN <<children[first[1]], children[first[2]]>>

\* The seeds are the pair the rule gives, and a pair, when one is returned,
\* is made of two different children.
SeedsByRule(h, children, seeds) ==
    /\ seeds = FirstMaxPair(h, children)
    /\ seeds[1] # NIL =>
          /\ seeds[1] # seeds[2]
          /\ seeds[1] \in SeqToSet(children) /\ seeds[2] \in SeqToSet(children)

AppendSeedsByRule(app) ==
    nodeOverflowing(app.m.heap, app.leaf) =>
        SeedsByRule(app.m.heap, app.m.heap[app.leaf].Children,
                    pickSeeds(app.m.heap, app.leaf))

\* C31: pickSeeds goes over all ordered pairs (i, j) of a node's children
\* and returns the first pair, in iteration order, that attains the greatest
\* enlargement of children[i]'s box by children[j]'s; a pair it returns is
\* made of two distinct children of the node.
C31_PickSeedsFirstMax ==
    ~panicked => \A x \in Offered : AppendSeedsByRule(insertAppended(Begin, x))

\* How much more one group than the other must grow to take an entry.
Preference(h, entry, groupA, groupB) ==
    Abs(Enlargement(groupA.BoundingBox, h[entry].BoundingBox)
        - Enlargement(groupB.BoundingBox, h[entry].BoundingBox))

\* The first place among the entries left where the preference is greatest.
FirstGreatestPreference(h, call) ==
    LET pref(i) == Preference(h, call.remaining[i], call.groupA, call.groupB)
        top == Greatest({ pref(i) : i \in 1..Len(call.remaining) })
    IN Least({ i \in 1..Len(call.remaining) : pref(i) = top })

\* Every pickNext call of the list answered as the rule says, within range.
PickedByRule(h, calls) ==
    \A k \in 1..Len(calls) :
        /\ pickNext(h, calls[k].remaining, calls[k].groupA, calls[k].groupB)
              = FirstGreatestPreference(h, calls[k])
        /\ pickNext(h, calls[k].remaining, calls[k].groupA, calls[k].groupB)
              \in 1..Len(calls[k].remaining)

AppendPickedByRule(app) == PickedByRule(app.m.heap, CallsAfter(app))

\* C32: pickNext returns the index of the entry left that maximises
\* |d1 - d2|, d1 and d2 being the enlargements groups A and B need to take it;
\* on ties the first such entry; the index is in range whenever entries are
\* left.
C32_PickNextGreatestPreference ==
    ~panicked => \A x \in Offered : AppendPickedByRule(insertAppended(Begin, x))

\* Some pickNext call of the list, with three entries left, passed over the
\* first of them, and some call found two entries tied for the greatest
\* preference.
PickedLaterAndTied(h, calls) ==
    /\ \E k \in 1..Len(calls) :
          /\ Len(calls[k].remaining) = 3
          /\ pickNext(h, calls[k].remaining, calls[k].groupA, calls[k].groupB) > 1
    /\ \E k \in 1..Len(calls) :
          \E i, j \in 1..Len(calls[k].remaining) :
              /\ i < j
              /\ i = pickNext(h, calls[k].remaining, calls[k].groupA, calls[k].groupB)
              /\ Preference(h, calls[k].remaining[i], calls[k].groupA, calls[k].groupB)
                    = Preference(h, calls[k].remaining[j], calls[k].groupA, calls[k].groupB)

AppendPickedLaterAndTied(app) == PickedLaterAndTied(app.m.heap, CallsAfter(app))

\* An Insert is about to split a leaf, and in that split pickNext passes over
\* the first entry left and settles a tie.
C32_Witness ==
    /\ ~panicked
    /\ \E x \in Offered : AppendPickedLaterAndTied(insertAppended(Begin, x))

\* The height of the subtree of a node: its levels of structural nodes, an
\* entry counting for none.
RECURSIVE Height(_, _)
Height(h, n) ==
    IF h[n].Data # NoData THEN 0
    ELSE 1 + Greatest({0} \cup { Height(h, h[n].Children[i]) : i \in 1..Len(h[n].Children) })

\* An Insert that ended in the tree m changed the height only by a root
\* split: a new root over the old root and its sibling, one level higher.
GrewByRootSplit(m) ==
    ~m.panic =>
        IF m.root # root
        THEN /\ Height(m.heap, m.root) = Height(heap, root) + 1
             /\ ~m.heap[m.root].IsLeaf
             /\ Len(m.heap[m.root].Children) = 2
             /\ m.heap[m.root].Children[1] = root
             /\ \A i \in 1..2 : m.heap[m.heap[m.root].Children[i]].Parent = m.root
        ELSE Height(m.heap, m.root) = Height(heap, root)

\* A Delete changed the height only by its root shrink, by one level: pre is
\* the tree the root shrink found, post the tree Delete left.
ShrankByRootShrink(pre, post) ==
    ~post.panic =>
        /\ pre.root = root => Height(pre.heap, pre.root) = Height(heap, root)
        /\ Height(post.heap, post.root) =
              Height(pre.heap, pre.root) - (IF post.root # pre.root THEN 1 ELSE 0)

\* C33: the height changes at two events only: it grows by exactly one when
\* the root splits during Insert, a new internal root being installed over
\* exactly the old root and its sibling, both with it as parent; it shrinks by
\* exactly one at the root shrink of Delete; any other Insert or Delete
\* leaves it unchanged.
C33_HeightChanges ==
    ~panicked =>
        /\ \A x \in Offered : GrewByRootSplit(Insert(Begin, x))
        /\ \A x \in stored :
              ~Delete(Begin, x).err =>
                  ShrankByRootShrink(deleteReinserted(Begin, x, findLeaf(heap, root, x)).m,
                                     Delete(Begin, x).m)

\* The nodes from a node up to the root, the root left out.
RECURSIVE PathBelowRoot(_, _)
PathBelowRoot(h, n) ==
    IF h[n].Parent = NIL THEN {} ELSE {n} \cup PathBelowRoot(h, h[n].Parent)

\* The entries in the subtree of a node of the memory h.
EntriesUnder(h, n) == { e \in Below(h, {n}) : h[e].Data # NoData }

\* condenseTree, started at a leaf of the memory h0, returned c: the nodes
\* of the path that it detached are those left underfull, the orphans are
\* the entries below them, each once, the others kept their place and had
\* their box recomputed, as had the root.
CondensedWell(h0, rt, leaf, c) ==
    LET path == PathBelowRoot(h0, leaf)
        detached == { n \in path : n \notin SeqToSet(c.heap[h0[n].Parent].Children) }
    IN /\ \A n \in path : n \in detached <=> Len(c.heap[n].Children) < minEntries
       /\ EachOnce(c.orphans, UNION { EntriesUnder(h0, n) : n \in detached })
       /\ \A n \in (path \ detached) \cup {rt} :
             c.heap[n].BoundingBox = computeNodesMBR(c.heap, c.heap[n].Children)
       /\ \A n \in Below(h0, {rt}) \ (path \cup {rt}) : c.heap[n] = h0[n]

\* Every orphan's item is, in the tree post, an entry of a node flagged as a
\* leaf.
ReinsertedInLeaves(h0, orphans, post) ==
    \A k \in 1..Len(orphans) :
        \E l \in Below(post.heap, {post.root}) :
            /\ post.heap[l].IsLeaf
            /\ \E i \in 1..Len(post.heap[l].Children) :
                  post.heap[post.heap[l].Children[i]].Data = h0[orphans[k]].Data

DeleteCondensedWell(h0, leaf, c, post) ==
    ~post.panic =>
        /\ CondensedWell(h0, root, leaf, c)
        /\ ReinsertedInLeaves(h0, c.orphans, post)

DeleteCondensesWell(x, leaf) ==
    leaf # NIL =>
        DeleteCondensedWell(deleteRemoved(Begin, x, leaf), leaf,
                            condenseTree(deleteRemoved(Begin, x, leaf), root, leaf),
                            Delete(Begin, x).m)

\* C34: condenseTree walks from the leaf up to the root, the root left out;
\* each node of the path with fewer than min_entries children is detached
\* and every entry of its subtree joins the orphans exactly once; each other
\* node of the path stays attached with its box recomputed; the root's box
\* is recomputed last; and Delete reinserts every orphan at leaf level.
C34_CondenseTree ==
    ~panicked => \A x \in stored : DeleteCondensesWell(x, findLeaf(heap, root, x))

-----------------------------------------------------------------------------
\* Termination.  Each loop of the public calls walks the Children downwards,
\* the Parent pointers upwards, or a list that loses one element per turn.

\* Following Parent from a node reaches nil within fuel steps.
RECURSIVE Climbs(_, _, _)
Climbs(h, n, fuel) ==
    IF n = NIL THEN TRUE
    ELSE IF fuel = 0 THEN FALSE
    ELSE Climbs(h, h[n].Parent, fuel - 1)

\* Going down from a set of nodes through Children, level by level, runs out
\* of nodes within fuel levels.
RECURSIVE Fades(_, _, _)
Fades(h, frontier, fuel) ==
    IF frontier = {} THEN TRUE
    ELSE IF fuel = 0 THEN FALSE
    ELSE Fades(h, UNION { SeqToSet(h[n].Children) : n \in frontier }, fuel - 1)

\* The tree under r is finite and without cycle, downwards and upwards: the
\* chooseLeaf descent, the stack traversals, collectLeafNodes, the adjustTree
\* recursion and the condenseTree walk on it come to an end.
WellFoundedFrom(h, r, nodes) ==
    /\ \A n \in nodes : Climbs(h, n, Cardinality(nodes))
    /\ Fades(h, {r}, Cardinality(nodes))

\* Every turn of the distribution loop leaves one entry fewer.
Shrinking(h, calls) ==
    \A k \in 1..Len(calls) :
        Len(RemoveAt(calls[k].remaining,
                     pickNext(h, calls[k].remaining, calls[k].groupA, calls[k].groupB)))
            = Len(calls[k].remaining) - 1

AppendShrinking(app) == Shrinking(app.m.heap, CallsAfter(app))

\* The reinsertion loop of a Delete runs over a list no longer than the
\* entries of the tree, on a tree that condenseTree left well founded.
CondensedEnds(c, nodes) ==
    /\ WellFoundedFrom(c.heap, root, Below(c.heap, {root}))
    /\ Len(c.orphans) <= Cardinality(nodes)

DeleteEnds(x, leaf) ==
    leaf # NIL =>
        CondensedEnds(condenseTree(deleteRemoved(Begin, x, leaf), root, leaf), TreeNodes)

\* C35: every public call on a tree reached by Insert and Delete calls
\* terminates: every tree so reached is finite and without cycle, downwards
\* through Children and upwards through Parent, so the chooseLeaf descent,
\* the stack traversals, the adjustTree recursion and the condenseTree walk
\* come to an end; every turn of the distribution loop of a split consumes
\* one entry; and the reinsertion loop of a Delete runs over a finite list
\* on a tree that condenseTree left without cycle.
C35_CallsTerminate ==
    /\ WellFoundedFrom(heap, root, TreeNodes)
    /\ ~panicked =>
          /\ \A x \in Offered : AppendShrinking(insertAppended(Begin, x))
          /\ \A x \in stored : DeleteEnds(x, findLeaf(heap, root, x))

\* Orphans of some Delete on this tree, two or more.
OrphansOf(x, leaf) ==
    leaf # NIL /\ Len(condenseTree(deleteRemoved(Begin, x, leaf), root, leaf).orphans) >= 2

\* A tree of three levels on which a Delete condenses and reinserts two or
\* more orphans and an Insert splits a leaf with three turns of the
\* distribution loop.
C35_Witness ==
    /\ ~panicked /\ Tall
    /\ \E x \in stored : OrphansOf(x, findLeaf(heap, root, x))
    /\ \E x \in Offered : Len(CallsAfter(insertAppended(Begin, x))) = 3
====
